---------------------------- MODULE Spec2Model ----------------------------
(***************************************************************************)
(* Tickr backend (src/main.py): a FastAPI application over SQLite with a   *)
(* Server-Sent-Events fan-out.                                             *)
(*                                                                         *)
(* The model has three parts:                                              *)
(*   - the SQLite store: the committed database `db`, and the working copy *)
(*     `work` of the one connection that holds the write transaction;      *)
(*   - the request handlers, one action per SQL statement / commit /       *)
(*     broadcast call, executed by the worker threads of the thread pool;  *)
(*   - the SSE broadcaster: clients_lock, connected_clients, one Queue per *)
(*     live connection and the life cycle of each sse_events connection.   *)
(*                                                                         *)
(* The variables appended, published, trace, consumed and pubCount are     *)
(* history variables: they record what a request or a connection has done  *)
(* and no action reads them, except for the bound on pubCount.             *)
(*                                                                         *)
(* Optional values (Python None, SQL NULL) are sets with at most one       *)
(* element: {} is None/NULL, {x} is the value x.                           *)
(* The columns created_at of lists and items are not modelled: no handler  *)
(* modelled here reads or writes them after the INSERT.                    *)
(***************************************************************************)
EXTENDS Integers, Sequences, FiniteSets, TLC

(***************************************************************************)
(* Bounds of the model.                                                    *)
(***************************************************************************)
NumThreads == 2
MaxLists == 2
MaxItems == 2
MaxHistory == 4
MaxTime == 2
MaxPublish == 2
MaxConns == 2
SmallRows == 5
MaxRows == 103

Threads == 1..NumThreads
Conns == 1..MaxConns

(***************************************************************************)
(* Program constants.                                                      *)
(***************************************************************************)
\* The item sort options with one more value accepted.
VALID_SORT_OPTIONS_and_bogus ==
    {"alphabetical", "alphabetical_desc", "created_desc", "created_asc", "bogus"}

VALID_SORT_OPTIONS == {"alphabetical", "alphabetical_desc", "created_desc", "created_asc"}

VALID_LIST_SORT_OPTIONS == VALID_SORT_OPTIONS \cup {"custom"}

\* Queue() is constructed without a maxsize: maxsize is 0, which queue.Queue
\* treats as "no limit".
QueueMaxsize == 0

\* get_history: LIMIT 100
HistoryLimit == 100

\* get_db opens the connection with sqlite3.connect and issues no
\* "PRAGMA foreign_keys = ON": SQLite leaves foreign keys unenforced.
foreign_keys == FALSE

(***************************************************************************)
(* Inputs of the requests.                                                 *)
(***************************************************************************)
Texts == {"a", "b"}
ListNames == {"Work"}
Icons == {"check"}
SortInputs == {"created_asc", "bogus"}
ListSortInputs == {"custom", "bogus"}

Opt(S) == {{}} \cup {{x} : x \in S}

VARIABLES
    db,                \* the committed database
    work,              \* the database as seen by the connection in `writer`
    writer,            \* the thread whose connection has an open write transaction
    now,               \* the wall clock (CURRENT_TIMESTAMP, datetime.now())
    pc,                \* per thread: the statement the handler is at
    req,               \* per thread: the request being served
    loc,               \* per thread: the handler's local variables
    status,            \* per thread: the outcome of the request
    appended,          \* per thread: history rows this request inserted
    published,         \* per thread: broadcast_update calls this request made
    trace,             \* per thread: the steps of this request, in order
    clients_lock,      \* the holder of clients_lock
    connected_clients, \* the list of registered queues
    chan,              \* per connection: the content of its Queue
    conn,              \* per connection: where sse_events / event_generator is
    consumed,          \* per connection: the events its generator has yielded
    pubCount           \* number of broadcast_update calls that took the lock

storeVars == <<db, work, writer, now>>
threadVars == <<pc, req, loc, status, appended, published, trace>>
sseVars == <<clients_lock, connected_clients, chan, conn, consumed, pubCount>>
vars == <<db, work, writer, now, pc, req, loc, status, appended, published, trace,
          clients_lock, connected_clients, chan, conn, consumed, pubCount>>

(***************************************************************************)
(* The store: SQL statements as operators on a database value.             *)
(***************************************************************************)
Max(S) == CHOOSE x \in S : \A y \in S : y <= x

\* init_db: the schema, the default setting and the default list.
InitDb ==
    [lists |-> {[id |-> 1, name |-> "Todos", icon |-> "check",
                 item_sort |-> "alphabetical", sort_order |-> 0]},
     items |-> {},
     history |-> {},
     list_sort |-> "alphabetical",
     seq_lists |-> 1, seq_items |-> 0, seq_history |-> 0]

\* INSERT INTO lists (name, icon, sort_order): AUTOINCREMENT id, item_sort default.
InsertList(d, name, icon, sort_order) ==
    [d EXCEPT !.lists = @ \cup {[id |-> d.seq_lists + 1, name |-> name, icon |-> icon,
                                 item_sort |-> "alphabetical", sort_order |-> sort_order]},
              !.seq_lists = @ + 1]

\* INSERT INTO items (list_id, text): completed defaults to 0, completed_at to NULL.
InsertItem(d, list_id, text) ==
    [d EXCEPT !.items = @ \cup {[id |-> d.seq_items + 1, list_id |-> list_id, text |-> text,
                                 completed |-> FALSE, completed_at |-> {}]},
              !.seq_items = @ + 1]

\* INSERT INTO history (list_id, item_id, action, item_text): timestamp defaults
\* to CURRENT_TIMESTAMP.
InsertHistory(d, list_id, item_id, action, item_text, ts) ==
    [d EXCEPT !.history = @ \cup {[id |-> d.seq_history + 1, list_id |-> list_id,
                                   item_id |-> item_id, action |-> action,
                                   item_text |-> item_text, timestamp |-> ts]},
              !.seq_history = @ + 1]

\* The row INSERT INTO history is about to add (cursor.lastrowid and its values).
NewHistoryRow(d, list_id, item_id, action, item_text, ts) ==
    [id |-> d.seq_history + 1, list_id |-> list_id, item_id |-> item_id,
     action |-> action, item_text |-> item_text, timestamp |-> ts]

\* SELECT COALESCE(MAX(sort_order), -1) + 1 FROM lists
NextSortOrder(d) ==
    IF d.lists = {} THEN 0 ELSE Max({l.sort_order : l \in d.lists}) + 1

\* A SELECT without its WHERE clause: fetchone() returns some row of the table.
SelectAnyItem(d, item_id) ==
    IF d.items = {} THEN {} ELSE {CHOOSE i \in d.items : TRUE}

\* SELECT * FROM items WHERE id = ? ; fetchone(): the row, or None.
SelectItem(d, item_id) == {i \in d.items : i.id = item_id}

\* UPDATE lists SET name = ?, icon = ?, item_sort = ? WHERE id = ?, with the
\* columns the request carries.
UpdateList(d, list_id, name, icon, item_sort) ==
    [d EXCEPT !.lists =
        {IF l.id # list_id THEN l
         ELSE [l EXCEPT !.name = IF name = {} THEN @ ELSE CHOOSE x \in name : TRUE,
                        !.icon = IF icon = {} THEN @ ELSE CHOOSE x \in icon : TRUE,
                        !.item_sort = IF item_sort = {} THEN @
                                      ELSE CHOOSE x \in item_sort : TRUE]
         : l \in @}]

\* DELETE FROM lists WHERE id = ? ; the ON DELETE CASCADE of items and history
\* acts only when foreign keys are enforced.
DeleteListRow(d, list_id) ==
    [d EXCEPT !.lists = {l \in @ : l.id # list_id},
              !.items = IF foreign_keys THEN {i \in @ : i.list_id # list_id} ELSE @,
              !.history = IF foreign_keys THEN {h \in @ : h.list_id # list_id} ELSE @]

\* DELETE FROM history WHERE list_id = ?
DeleteListHistory(d, list_id) ==
    [d EXCEPT !.history = {h \in @ : h.list_id # list_id}]

\* A DELETE of the item that also deletes the history rows of the item.
DeleteItemRowAndHistory(d, item_id) ==
    [d EXCEPT !.items = {i \in @ : i.id # item_id},
              !.history = {h \in @ : item_id \notin h.item_id}]

\* DELETE FROM items WHERE id = ?
DeleteItemRow(d, item_id) ==
    [d EXCEPT !.items = {i \in @ : i.id # item_id}]

\* An UPDATE of the item that leaves completed_at as it is when the item is
\* uncompleted.
UpdateItemRowKeepingTime(d, item_id, updates, text, completed, ts) ==
    [d EXCEPT !.items =
        {IF i.id # item_id THEN i
         ELSE [i EXCEPT !.text = IF "text" \in updates THEN text ELSE @,
                        !.completed = IF "completed" \in updates THEN completed ELSE @,
                        !.completed_at = IF "completed_at" \in updates /\ completed
                                         THEN {ts} ELSE @]
         : i \in @}]

\* UPDATE items SET <updates> WHERE id = ? , updates being the columns
\* update_item collected: "text", "completed", "completed_at".
UpdateItemRow(d, item_id, updates, text, completed, ts) ==
    [d EXCEPT !.items =
        {IF i.id # item_id THEN i
         ELSE [i EXCEPT !.text = IF "text" \in updates THEN text ELSE @,
                        !.completed = IF "completed" \in updates THEN completed ELSE @,
                        !.completed_at = IF "completed_at" \in updates
                                         THEN (IF completed THEN {ts} ELSE {})
                                         ELSE @]
         : i \in @}]

\* for idx, list_id in enumerate(list_ids): UPDATE lists SET sort_order = idx WHERE id = list_id
RECURSIVE ReorderFrom(_, _, _)
ReorderFrom(d, list_ids, idx) ==
    IF idx > Len(list_ids) THEN d
    ELSE ReorderFrom(
            [d EXCEPT !.lists = {IF l.id = list_ids[idx] THEN [l EXCEPT !.sort_order = idx - 1]
                                 ELSE l : l \in @}],
            list_ids, idx + 1)

\* INSERT OR REPLACE INTO settings (key, value) VALUES ('list_sort', ?)
ReplaceSetting(d, list_sort) == [d EXCEPT !.list_sort = list_sort]


(***************************************************************************)
(* Worker threads: request, locals, and the SQLite transaction discipline. *)
(***************************************************************************)
NoReq ==
    [op |-> "none", list_id |-> 0, item_id |-> 0, name |-> {}, icon |-> {},
     item_sort |-> {}, text |-> {}, completed |-> {}, undo |-> FALSE,
     list_ids |-> <<>>, list_sort |-> {}]

NoEvent == [type |-> "none", list_id |-> {}]

NoLoc ==
    [item |-> {}, rowid |-> 0, next_sort_order |-> 0, updates |-> {}, event |-> NoEvent,
     rows |-> <<>>]

Val(o) == CHOOSE x \in o : TRUE

\* What the connection of thread t reads: its own uncommitted changes, or the
\* committed database.
View(t) == IF writer = {t} THEN work ELSE db

\* A writing statement needs the database's write lock: free, or already held
\* by this connection's transaction.
CanWrite(t) == writer = {} \/ writer = {t}

AllIdle == \A t \in Threads : pc[t] = "idle"

\* The position of thread t moves to label l.
Goto(t, l) == pc' = [pc EXCEPT ![t] = l]

\* A writing statement of thread t: the implicit BEGIN, and the statement's effect.
Exec(t, d) == writer' = {t} /\ work' = d /\ UNCHANGED <<db, now>>

\* A commit that leaves the transaction open.
CommitLater(t) == UNCHANGED <<db, work, writer, now>>

\* db.commit(): the transaction's changes become the committed database.
Commit(t) ==
    /\ db' = View(t)
    /\ work' = View(t)
    /\ writer' = writer \ {t}
    /\ UNCHANGED now

\* The request ends with outcome st (the response, or the HTTPException).
Respond(t, st) ==
    /\ pc' = [pc EXCEPT ![t] = "done"]
    /\ status' = [status EXCEPT ![t] = st]

Log(t, step) == trace' = [trace EXCEPT ![t] = Append(@, step)]

\* A request is received by an idle worker thread.
Receive(t, r, l) ==
    /\ pc[t] = "idle"
    /\ pc' = [pc EXCEPT ![t] = l]
    /\ req' = [req EXCEPT ![t] = r]
    /\ UNCHANGED <<storeVars, loc, status, appended, published, trace, sseVars>>

\* The request's budget in the model: the rows it may add.
Room(lists, items, hist) ==
    /\ db.seq_lists + lists <= MaxLists
    /\ db.seq_items + items <= MaxItems
    /\ db.seq_history + hist <= MaxHistory

\* The ids a request may name: every id the table has handed out, and the next
\* one (an id that does not exist yet); ids beyond it behave like the next one.
Min(a, b) == IF a <= b THEN a ELSE b

TargetListIds == 1..Min(db.seq_lists + 1, MaxLists)

TargetItemIds == 1..Min(db.seq_items + 1, MaxItems)

(***************************************************************************)
(* broadcast_update(event_type, list_id)                                   *)
(***************************************************************************)
\* put_nowait placing the message at the head of the queue.
put_nowait_front(q, message) ==
    IF 0 < QueueMaxsize /\ QueueMaxsize <= Len(q) THEN q ELSE <<message>> \o q

\* Queue.put_nowait: raises Full when 0 < maxsize <= qsize, else appends.
put_nowait(q, message) ==
    IF 0 < QueueMaxsize /\ QueueMaxsize <= Len(q) THEN q ELSE Append(q, message)

\* for queue in connected_clients: queue.put_nowait(message), Full ignored.
RECURSIVE PutAll(_, _, _)
PutAll(ch, clients, message) ==
    IF clients = <<>> THEN ch
    ELSE PutAll([ch EXCEPT ![Head(clients)] = put_nowait(@, message)], Tail(clients), message)

\* with clients_lock: entered.
BroadcastLock(t) ==
    /\ pc[t] = "bcast"
    /\ clients_lock = <<"free", 0>>
    /\ clients_lock' = <<"thread", t>>
    /\ pubCount' = pubCount + 1
    /\ published' = [published EXCEPT ![t] = Append(@, loc[t].event)]
    /\ Log(t, "publish")
    /\ Goto(t, "bcast_put")
    /\ UNCHANGED <<storeVars, req, loc, status, appended,
                   connected_clients, chan, conn, consumed>>

\* The loop over connected_clients, and the lock's release; the handler returns.
BroadcastDeliver(t) ==
    /\ pc[t] = "bcast_put"
    /\ clients_lock = <<"thread", t>>
    /\ chan' = PutAll(chan, connected_clients,
                      [type |-> loc[t].event.type, list_id |-> loc[t].event.list_id,
                       pub |-> pubCount])
    /\ clients_lock' = <<"free", 0>>
    /\ Respond(t, "ok")
    /\ UNCHANGED <<storeVars, req, loc, appended, published, trace,
                   connected_clients, conn, consumed, pubCount>>

\* The response is sent; get_db's finally closes the connection, which rolls
\* back a transaction left open.
Finish(t) ==
    /\ pc[t] = "done"
    /\ pc' = [pc EXCEPT ![t] = "idle"]
    /\ req' = [req EXCEPT ![t] = NoReq]
    /\ loc' = [loc EXCEPT ![t] = NoLoc]
    /\ status' = [status EXCEPT ![t] = ""]
    /\ appended' = [appended EXCEPT ![t] = <<>>]
    /\ published' = [published EXCEPT ![t] = <<>>]
    /\ trace' = [trace EXCEPT ![t] = <<>>]
    /\ writer' = writer \ {t}
    /\ work' = IF writer = {t} THEN db ELSE work
    /\ UNCHANGED <<db, now, sseVars>>

(***************************************************************************)
(* create_list                                                             *)
(***************************************************************************)
StartCreateList(t) ==
    /\ Room(1, 0, 1)
    /\ \E name \in ListNames, icon \in Icons :
          Receive(t, [NoReq EXCEPT !.op = "create_list", !.name = {name}, !.icon = {icon}],
                  "cl_select")

CreateListSelect(t) ==
    /\ pc[t] = "cl_select"
    /\ loc' = [loc EXCEPT ![t].next_sort_order = NextSortOrder(View(t))]
    /\ Goto(t, "cl_insert")
    /\ UNCHANGED <<storeVars, req, status, appended, published, trace, sseVars>>

CreateListInsert(t) ==
    /\ pc[t] = "cl_insert"
    /\ CanWrite(t)
    /\ Exec(t, InsertList(View(t), Val(req[t].name), Val(req[t].icon), loc[t].next_sort_order))
    /\ loc' = [loc EXCEPT ![t].rowid = View(t).seq_lists + 1]
    /\ Log(t, "store")
    /\ Goto(t, "cl_commit1")
    /\ UNCHANGED <<req, status, appended, published, sseVars>>

CreateListCommit1(t) ==
    /\ pc[t] = "cl_commit1"
    /\ Commit(t)
    /\ Goto(t, "cl_history")
    /\ UNCHANGED <<req, loc, status, appended, published, trace, sseVars>>

CreateListHistory(t) ==
    /\ pc[t] = "cl_history"
    /\ CanWrite(t)
    /\ Exec(t, InsertHistory(View(t), loc[t].rowid, {}, "list_created", Val(req[t].name), now))
    /\ appended' = [appended EXCEPT ![t] =
          Append(@, NewHistoryRow(View(t), loc[t].rowid, {}, "list_created",
                                  Val(req[t].name), now))]
    /\ Log(t, "history")
    /\ Goto(t, "cl_commit2")
    /\ UNCHANGED <<req, loc, status, published, sseVars>>

CreateListCommit2(t) ==
    /\ pc[t] = "cl_commit2"
    /\ Commit(t)
    /\ loc' = [loc EXCEPT ![t].event = [type |-> "lists_changed", list_id |-> {}]]
    /\ Goto(t, "bcast")
    /\ UNCHANGED <<req, status, appended, published, trace, sseVars>>

(***************************************************************************)
(* update_list                                                             *)
(***************************************************************************)
StartUpdateList(t) ==
    /\ Room(0, 0, 0)
    /\ \E list_id \in TargetListIds, name \in Opt(ListNames), icon \in Opt(Icons),
          item_sort \in Opt(SortInputs) :
          Receive(t, [NoReq EXCEPT !.op = "update_list", !.list_id = list_id, !.name = name,
                                   !.icon = icon, !.item_sort = item_sort],
                  "ul_validate")

\* The columns the request carries (the list `updates`).
ListUpdates(r) ==
    (IF r.name # {} THEN {"name"} ELSE {})
    \cup (IF r.icon # {} THEN {"icon"} ELSE {})
    \cup (IF r.item_sort # {} THEN {"item_sort"} ELSE {})

UpdateListValidate(t) ==
    /\ pc[t] = "ul_validate"
    /\ IF req[t].item_sort # {} /\ Val(req[t].item_sort) \notin VALID_SORT_OPTIONS
       THEN Respond(t, "400") /\ UNCHANGED loc
       ELSE /\ loc' = [loc EXCEPT ![t].updates = ListUpdates(req[t])]
            /\ IF ListUpdates(req[t]) # {}
               THEN Goto(t, "ul_update") /\ UNCHANGED status
               ELSE Respond(t, "ok")
    /\ UNCHANGED <<storeVars, req, appended, published, trace, sseVars>>

UpdateListUpdate(t) ==
    /\ pc[t] = "ul_update"
    /\ CanWrite(t)
    /\ Exec(t, UpdateList(View(t), req[t].list_id, req[t].name, req[t].icon, req[t].item_sort))
    /\ Log(t, "store")
    /\ Goto(t, "ul_commit")
    /\ UNCHANGED <<req, loc, status, appended, published, sseVars>>

UpdateListCommit(t) ==
    /\ pc[t] = "ul_commit"
    /\ Commit(t)
    /\ loc' = [loc EXCEPT ![t].event = [type |-> "lists_changed", list_id |-> {req[t].list_id}]]
    /\ Goto(t, "bcast")
    /\ UNCHANGED <<req, status, appended, published, trace, sseVars>>

(***************************************************************************)
(* delete_list                                                             *)
(***************************************************************************)
StartDeleteList(t) ==
    /\ Room(0, 0, 0)
    /\ \E list_id \in TargetListIds :
          Receive(t, [NoReq EXCEPT !.op = "delete_list", !.list_id = list_id], "dl_lists")

DeleteListLists(t) ==
    /\ pc[t] = "dl_lists"
    /\ CanWrite(t)
    /\ Exec(t, DeleteListRow(View(t), req[t].list_id))
    /\ Log(t, "store")
    /\ Goto(t, "dl_history")
    /\ UNCHANGED <<req, loc, status, appended, published, sseVars>>

DeleteListHistoryRows(t) ==
    /\ pc[t] = "dl_history"
    /\ CanWrite(t)
    /\ Exec(t, DeleteListHistory(View(t), req[t].list_id))
    /\ Goto(t, "dl_commit")
    /\ UNCHANGED <<req, loc, status, appended, published, trace, sseVars>>

DeleteListCommit(t) ==
    /\ pc[t] = "dl_commit"
    /\ Commit(t)
    /\ loc' = [loc EXCEPT ![t].event = [type |-> "lists_changed", list_id |-> {}]]
    /\ Goto(t, "bcast")
    /\ UNCHANGED <<req, status, appended, published, trace, sseVars>>

(***************************************************************************)
(* reorder_lists                                                           *)
(***************************************************************************)
ReorderInputs ==
    {<<>>} \cup {<<a>> : a \in TargetListIds}
           \cup {p \in TargetListIds \X TargetListIds : p[1] # p[2]}

StartReorderLists(t) ==
    /\ Room(0, 0, 0)
    /\ \E list_ids \in ReorderInputs :
          Receive(t, [NoReq EXCEPT !.op = "reorder_lists", !.list_ids = list_ids], "rl_update")

\* The loop of UPDATE statements; an empty list_ids executes none and opens no
\* transaction.
ReorderListsUpdate(t) ==
    /\ pc[t] = "rl_update"
    /\ IF req[t].list_ids = <<>>
       THEN UNCHANGED <<storeVars, trace>>
       ELSE /\ CanWrite(t)
            /\ Exec(t, ReorderFrom(View(t), req[t].list_ids, 1))
            /\ Log(t, "store")
    /\ Goto(t, "rl_commit")
    /\ UNCHANGED <<req, loc, status, appended, published, sseVars>>

ReorderListsCommit(t) ==
    /\ pc[t] = "rl_commit"
    /\ Commit(t)
    /\ loc' = [loc EXCEPT ![t].event = [type |-> "lists_changed", list_id |-> {}]]
    /\ Goto(t, "bcast")
    /\ UNCHANGED <<req, status, appended, published, trace, sseVars>>

(***************************************************************************)
(* create_item                                                             *)
(***************************************************************************)
StartCreateItem(t) ==
    /\ Room(0, 1, 1)
    /\ \E list_id \in TargetListIds, text \in Texts, undo \in BOOLEAN :
          Receive(t, [NoReq EXCEPT !.op = "create_item", !.list_id = list_id,
                                   !.text = {text}, !.undo = undo],
                  "ci_insert")

\* The INSERT fails with an IntegrityError only when foreign keys are enforced
\* and the list does not exist.
CreateItemInsert(t) ==
    /\ pc[t] = "ci_insert"
    /\ CanWrite(t)
    /\ IF foreign_keys /\ req[t].list_id \notin {l.id : l \in View(t).lists}
       THEN /\ Respond(t, "500")
            /\ UNCHANGED <<storeVars, loc, trace>>
       ELSE /\ Exec(t, InsertItem(View(t), req[t].list_id, Val(req[t].text)))
            /\ loc' = [loc EXCEPT ![t].rowid = View(t).seq_items + 1]
            /\ Log(t, "store")
            /\ Goto(t, "ci_commit1")
            /\ UNCHANGED status
    /\ UNCHANGED <<req, appended, published, sseVars>>

CreateItemCommit1(t) ==
    /\ pc[t] = "ci_commit1"
    /\ Commit(t)
    /\ Goto(t, "ci_history")
    /\ UNCHANGED <<req, loc, status, appended, published, trace, sseVars>>

\* action = "undo_deleted" if item_data.undo else "item_created"
CreateItemAction(undo) == IF undo THEN "undo_deleted" ELSE "item_created"

CreateItemHistory(t) ==
    /\ pc[t] = "ci_history"
    /\ CanWrite(t)
    /\ LET row == NewHistoryRow(View(t), req[t].list_id, {loc[t].rowid},
                                CreateItemAction(req[t].undo), Val(req[t].text), now)
       IN /\ Exec(t, InsertHistory(View(t), row.list_id, row.item_id, row.action,
                                   row.item_text, row.timestamp))
          /\ appended' = [appended EXCEPT ![t] = Append(@, row)]
    /\ Log(t, "history")
    /\ Goto(t, "ci_commit2")
    /\ UNCHANGED <<req, loc, status, published, sseVars>>

CreateItemCommit2(t) ==
    /\ pc[t] = "ci_commit2"
    /\ Commit(t)
    /\ loc' = [loc EXCEPT ![t].event = [type |-> "items_changed", list_id |-> {req[t].list_id}]]
    /\ Goto(t, "bcast")
    /\ UNCHANGED <<req, status, appended, published, trace, sseVars>>

(***************************************************************************)
(* update_item                                                             *)
(***************************************************************************)
StartUpdateItem(t) ==
    /\ Room(0, 0, 2)
    /\ \E item_id \in TargetItemIds, text \in Opt(Texts), completed \in Opt(BOOLEAN),
          undo \in BOOLEAN :
          Receive(t, [NoReq EXCEPT !.op = "update_item", !.item_id = item_id, !.text = text,
                                   !.completed = completed, !.undo = undo],
                  "ui_select")

UpdateItemSelect(t) ==
    /\ pc[t] = "ui_select"
    /\ loc' = [loc EXCEPT ![t].item = SelectItem(View(t), req[t].item_id)]
    /\ IF SelectItem(View(t), req[t].item_id) = {}
       THEN Respond(t, "404")
       ELSE Goto(t, "ui_text") /\ UNCHANGED status
    /\ UNCHANGED <<storeVars, req, appended, published, trace, sseVars>>

\* f"{item['text']} -> {item_data.text}" (the source writes a Unicode arrow)
EditSnapshot(before, after) == before \o " -> " \o after

\* item_data.text or item["text"]: None and the empty string fall back.
TextOr(text, item_text) ==
    IF text = {} \/ Val(text) = "" THEN item_text ELSE Val(text)

EditAction(undo) == IF undo THEN "undo_edited" ELSE "item_edited"

\* CompletedAction with the two undo tags exchanged.
CompletedActionSwapped(completed, undo) ==
    IF completed
    THEN (IF undo THEN "undo_completed" ELSE "item_completed")
    ELSE (IF undo THEN "undo_uncompleted" ELSE "item_uncompleted")

CompletedAction(completed, undo) ==
    IF completed
    THEN (IF undo THEN "undo_uncompleted" ELSE "item_completed")
    ELSE (IF undo THEN "undo_completed" ELSE "item_uncompleted")

\* if item_data.text is not None and item_data.text != item["text"]
TextChanged(r, item) == r.text # {} /\ Val(r.text) # item.text

UpdateItemText(t) ==
    /\ pc[t] = "ui_text"
    /\ LET item == Val(loc[t].item)
       IN IF TextChanged(req[t], item)
          THEN LET row == NewHistoryRow(View(t), item.list_id, {req[t].item_id},
                                        EditAction(req[t].undo),
                                        EditSnapshot(item.text, Val(req[t].text)), now)
               IN /\ CanWrite(t)
                  /\ Exec(t, InsertHistory(View(t), row.list_id, row.item_id, row.action,
                                           row.item_text, row.timestamp))
                  /\ appended' = [appended EXCEPT ![t] = Append(@, row)]
                  /\ loc' = [loc EXCEPT ![t].updates = @ \cup {"text"}]
                  /\ Log(t, "history")
          ELSE UNCHANGED <<storeVars, appended, loc, trace>>
    /\ Goto(t, "ui_completed")
    /\ UNCHANGED <<req, status, published, sseVars>>

UpdateItemCompleted(t) ==
    /\ pc[t] = "ui_completed"
    /\ LET item == Val(loc[t].item)
       IN IF req[t].completed # {}
          THEN LET completed == Val(req[t].completed)
                   row == NewHistoryRow(View(t), item.list_id, {req[t].item_id},
                                        CompletedAction(completed, req[t].undo),
                                        TextOr(req[t].text, item.text), now)
               IN /\ CanWrite(t)
                  /\ Exec(t, InsertHistory(View(t), row.list_id, row.item_id, row.action,
                                           row.item_text, row.timestamp))
                  /\ appended' = [appended EXCEPT ![t] = Append(@, row)]
                  /\ loc' = [loc EXCEPT ![t].updates = @ \cup {"completed", "completed_at"}]
                  /\ Log(t, "history")
          ELSE UNCHANGED <<storeVars, appended, loc, trace>>
    /\ Goto(t, "ui_update")
    /\ UNCHANGED <<req, status, published, sseVars>>

\* if updates: UPDATE items SET ... WHERE id = ?  (else the handler returns)
UpdateItemUpdate(t) ==
    /\ pc[t] = "ui_update"
    /\ IF loc[t].updates # {}
       THEN /\ CanWrite(t)
            /\ Exec(t, UpdateItemRow(View(t), req[t].item_id, loc[t].updates,
                                     TextOr(req[t].text, ""),
                                     req[t].completed = {TRUE}, now))
            /\ Log(t, "store")
            /\ Goto(t, "ui_commit")
            /\ UNCHANGED status
       ELSE /\ Respond(t, "ok")
            /\ UNCHANGED <<storeVars, trace>>
    /\ UNCHANGED <<req, loc, appended, published, sseVars>>

UpdateItemCommit(t) ==
    /\ pc[t] = "ui_commit"
    /\ Commit(t)
    /\ loc' = [loc EXCEPT ![t].event =
                  [type |-> "items_changed", list_id |-> {Val(loc[t].item).list_id}]]
    /\ Goto(t, "bcast")
    /\ UNCHANGED <<req, status, appended, published, trace, sseVars>>

(***************************************************************************)
(* delete_item                                                             *)
(***************************************************************************)
StartDeleteItem(t) ==
    /\ Room(0, 0, 1)
    /\ \E item_id \in TargetItemIds, undo \in BOOLEAN :
          Receive(t, [NoReq EXCEPT !.op = "delete_item", !.item_id = item_id, !.undo = undo],
                  "di_select")

DeleteItemSelect(t) ==
    /\ pc[t] = "di_select"
    /\ loc' = [loc EXCEPT ![t].item = SelectItem(View(t), req[t].item_id)]
    /\ Goto(t, "di_history")
    /\ UNCHANGED <<storeVars, req, status, appended, published, trace, sseVars>>

DeleteAction(undo) == IF undo THEN "undo_created" ELSE "item_deleted"

\* if item: INSERT INTO history ...
DeleteItemHistory(t) ==
    /\ pc[t] = "di_history"
    /\ IF loc[t].item # {}
       THEN LET item == Val(loc[t].item)
                row == NewHistoryRow(View(t), item.list_id, {req[t].item_id},
                                     DeleteAction(req[t].undo), item.text, now)
            IN /\ CanWrite(t)
               /\ Exec(t, InsertHistory(View(t), row.list_id, row.item_id, row.action,
                                        row.item_text, row.timestamp))
               /\ appended' = [appended EXCEPT ![t] = Append(@, row)]
               /\ Log(t, "history")
       ELSE UNCHANGED <<storeVars, appended, trace>>
    /\ Goto(t, "di_delete")
    /\ UNCHANGED <<req, loc, status, published, sseVars>>

DeleteItemDelete(t) ==
    /\ pc[t] = "di_delete"
    /\ CanWrite(t)
    /\ Exec(t, DeleteItemRow(View(t), req[t].item_id))
    /\ Log(t, "store")
    /\ Goto(t, "di_commit")
    /\ UNCHANGED <<req, loc, status, appended, published, sseVars>>

\* db.commit(); if list_id: broadcast_update("items_changed", list_id)
\* (list_id is None when the item was not found; 0 would be falsy too)
DeleteItemCommit(t) ==
    /\ pc[t] = "di_commit"
    /\ Commit(t)
    /\ IF loc[t].item # {} /\ Val(loc[t].item).list_id # 0
       THEN /\ loc' = [loc EXCEPT ![t].event =
                          [type |-> "items_changed", list_id |-> {Val(loc[t].item).list_id}]]
            /\ Goto(t, "bcast")
            /\ UNCHANGED status
       ELSE /\ Respond(t, "ok")
            /\ UNCHANGED loc
    /\ UNCHANGED <<req, appended, published, trace, sseVars>>

(***************************************************************************)
(* update_settings                                                         *)
(***************************************************************************)
StartUpdateSettings(t) ==
    /\ \E list_sort \in Opt(ListSortInputs) :
          Receive(t, [NoReq EXCEPT !.op = "update_settings", !.list_sort = list_sort],
                  "us_replace")

UpdateSettingsReplace(t) ==
    /\ pc[t] = "us_replace"
    /\ IF req[t].list_sort = {}
       THEN Goto(t, "us_commit") /\ UNCHANGED <<storeVars, status>>
       ELSE IF Val(req[t].list_sort) \notin VALID_LIST_SORT_OPTIONS
            THEN Respond(t, "400") /\ UNCHANGED storeVars
            ELSE /\ CanWrite(t)
                 /\ Exec(t, ReplaceSetting(View(t), Val(req[t].list_sort)))
                 /\ Goto(t, "us_commit")
                 /\ UNCHANGED status
    /\ UNCHANGED <<req, loc, appended, published, trace, sseVars>>

UpdateSettingsCommit(t) ==
    /\ pc[t] = "us_commit"
    /\ Commit(t)
    /\ Respond(t, "ok")
    /\ UNCHANGED <<req, loc, appended, published, trace, sseVars>>

(***************************************************************************)
(* The clock                                                               *)
(***************************************************************************)
Tick ==
    /\ now < MaxTime
    /\ now' = now + 1
    /\ UNCHANGED <<db, work, writer, threadVars, sseVars>>

(***************************************************************************)
(* The specification of the list and item handlers: one request at a time, *)
(* no SSE client connected.                                                *)
(***************************************************************************)
\* The state of the process once the database is d: no request in flight, no
\* SSE connection.
InitWith(d) ==
    /\ db = d
    /\ work = d
    /\ writer = {}
    /\ now = 1
    /\ pc = [t \in Threads |-> "idle"]
    /\ req = [t \in Threads |-> NoReq]
    /\ loc = [t \in Threads |-> NoLoc]
    /\ status = [t \in Threads |-> ""]
    /\ appended = [t \in Threads |-> <<>>]
    /\ published = [t \in Threads |-> <<>>]
    /\ trace = [t \in Threads |-> <<>>]
    /\ clients_lock = <<"free", 0>>
    /\ connected_clients = <<>>
    /\ chan = [c \in Conns |-> <<>>]
    /\ conn = [c \in Conns |-> "none"]
    /\ consumed = [c \in Conns |-> <<>>]
    /\ pubCount = 0

Init == InitWith(InitDb)

StartRequest(t) ==
    \/ StartCreateList(t)
    \/ StartUpdateList(t)
    \/ StartDeleteList(t)
    \/ StartReorderLists(t)
    \/ StartCreateItem(t)
    \/ StartUpdateItem(t)
    \/ StartDeleteItem(t)

HandlerStep(t) ==
    \/ CreateListSelect(t) \/ CreateListInsert(t) \/ CreateListCommit1(t)
    \/ CreateListHistory(t) \/ CreateListCommit2(t)
    \/ UpdateListValidate(t) \/ UpdateListUpdate(t) \/ UpdateListCommit(t)
    \/ DeleteListLists(t) \/ DeleteListHistoryRows(t) \/ DeleteListCommit(t)
    \/ ReorderListsUpdate(t) \/ ReorderListsCommit(t)
    \/ CreateItemInsert(t) \/ CreateItemCommit1(t) \/ CreateItemHistory(t)
    \/ CreateItemCommit2(t)
    \/ UpdateItemSelect(t) \/ UpdateItemText(t) \/ UpdateItemCompleted(t)
    \/ UpdateItemUpdate(t) \/ UpdateItemCommit(t)
    \/ DeleteItemSelect(t) \/ DeleteItemHistory(t) \/ DeleteItemDelete(t)
    \/ DeleteItemCommit(t)
    \/ BroadcastLock(t) \/ BroadcastDeliver(t) \/ Finish(t)

\* Worker threads are interchangeable: a request goes to the lowest idle one.
FirstIdle(t) == pc[t] = "idle" /\ \A u \in Threads : pc[u] = "idle" => t <= u

\* A request is admitted while fewer than MaxPublish broadcasts have been made.
Next ==
    \/ \E t \in Threads :
          AllIdle /\ FirstIdle(t) /\ pubCount < MaxPublish /\ StartRequest(t)
    \/ \E t \in Threads : HandlerStep(t)
    \/ Tick

Spec == Init /\ [][Next]_vars

(***************************************************************************)
(* Failing statements.  cursor.execute of a writing statement may raise    *)
(* sqlite3.Error (database is locked, disk full, I/O error).  No handler   *)
(* catches it: the request ends with a 500 response, and get_db's finally  *)
(* closes the connection, which discards what was not committed.           *)
(***************************************************************************)
\* Thread t is at an INSERT INTO history that it is going to execute.
AtHistoryInsert(t) ==
    \/ pc[t] \in {"cl_history", "ci_history"}
    \/ pc[t] = "ui_text" /\ TextChanged(req[t], Val(loc[t].item))
    \/ pc[t] = "ui_completed" /\ req[t].completed # {}
    \/ pc[t] = "di_history" /\ loc[t].item # {}

\* Thread t is at an INSERT, UPDATE or DELETE of lists or items that it is
\* going to execute.
AtStoreWrite(t) ==
    \/ pc[t] \in {"cl_insert", "ul_update", "dl_lists", "ci_insert", "di_delete"}
    \/ pc[t] = "rl_update" /\ req[t].list_ids # <<>>
    \/ pc[t] = "ui_update" /\ loc[t].updates # {}

\* The statement thread t is at raises: the exception leaves the handler.
ExecuteRaises(t) ==
    /\ AtHistoryInsert(t) \/ AtStoreWrite(t)
    /\ Log(t, IF AtHistoryInsert(t) THEN "history_failed" ELSE "store_failed")
    /\ Respond(t, "500")
    /\ UNCHANGED <<storeVars, req, loc, appended, published, sseVars>>

\* The behaviours examined run up to the first request that fails: once a
\* request has ended with a 500 response, no further step is taken.
NextFail ==
    \/ (\A u \in Threads : status[u] # "500") /\ Next
    \/ \E t \in Threads : ExecuteRaises(t)

SpecFail == Init /\ [][NextFail]_vars

(***************************************************************************)
(* The specification of the item handlers alone: create_item, update_item  *)
(* and delete_item, one request at a time, starting from the database that *)
(* a first create_item request has left.                                   *)
(***************************************************************************)
\* The database after POST /api/lists/1/items {"text": "a"} on the initial one.
DbWithItem ==
    InsertHistory(InsertItem(InitDb, 1, "a"), 1, {1}, CreateItemAction(FALSE), "a", 1)

InitItems == InitWith(DbWithItem)

ItemStep(t) ==
    \/ CreateItemInsert(t) \/ CreateItemCommit1(t) \/ CreateItemHistory(t)
    \/ CreateItemCommit2(t)
    \/ UpdateItemSelect(t) \/ UpdateItemText(t) \/ UpdateItemCompleted(t)
    \/ UpdateItemUpdate(t) \/ UpdateItemCommit(t)
    \/ DeleteItemSelect(t) \/ DeleteItemHistory(t) \/ DeleteItemDelete(t)
    \/ DeleteItemCommit(t)
    \/ BroadcastLock(t) \/ BroadcastDeliver(t) \/ Finish(t)

NextItems ==
    \/ \E t \in Threads :
          /\ AllIdle /\ FirstIdle(t) /\ pubCount < MaxPublish
          /\ StartCreateItem(t) \/ StartUpdateItem(t) \/ StartDeleteItem(t)
    \/ \E t \in Threads : ItemStep(t)
    \/ Tick

SpecItems == InitItems /\ [][NextItems]_vars

(***************************************************************************)
(* The specification of concurrent item requests: update_item and          *)
(* delete_item requests served by different worker threads at the same     *)
(* time, each on its own connection, starting from the database that a     *)
(* create_item request has left.  A SELECT opens no transaction; a writing *)
(* statement waits for the database's write lock.                          *)
(***************************************************************************)
\* The requests being served.
InFlight == {u \in Threads : pc[u] # "idle"}

RaceStep(t) ==
    \/ UpdateItemSelect(t) \/ UpdateItemText(t) \/ UpdateItemCompleted(t)
    \/ UpdateItemUpdate(t) \/ UpdateItemCommit(t)
    \/ DeleteItemSelect(t) \/ DeleteItemHistory(t) \/ DeleteItemDelete(t)
    \/ DeleteItemCommit(t)
    \/ BroadcastLock(t) \/ BroadcastDeliver(t) \/ Finish(t)

NextRace ==
    \/ \E t \in Threads :
          /\ FirstIdle(t)
          /\ pubCount + Cardinality(InFlight) < MaxPublish
          /\ StartUpdateItem(t) \/ StartDeleteItem(t)
    \/ \E t \in Threads : RaceStep(t)

SpecRace == InitItems /\ [][NextRace]_vars

(***************************************************************************)
(* get_history, over databases that hold few history rows and databases    *)
(* that hold about HistoryLimit of them.  The columns item_current_*       *)
(* that the LEFT JOIN adds to each returned row are not modelled.          *)
(***************************************************************************)
\* ORDER BY timestamp DESC places h before g.  SQL leaves the order of rows
\* with equal timestamps open; SQLite returns them in the order of its scan,
\* by id ascending ("asc"), and an index scan may return them reversed ("desc").
OrderedBefore(h, g, ties) ==
    \/ h.timestamp > g.timestamp
    \/ h.timestamp = g.timestamp /\ (IF ties = "asc" THEN h.id <= g.id ELSE h.id >= g.id)

\* The rows of S in the order of ORDER BY timestamp DESC: the k-th row is the
\* one that has k rows of S at or before it.
OrderByTimestampDesc(S, ties) ==
    LET position == [h \in S |-> Cardinality({g \in S : OrderedBefore(g, h, ties)})]
    IN [k \in 1..Cardinality(S) |-> CHOOSE h \in S : position[h] = k]

\* LIMIT n
Limit(rows, n) == SubSeq(rows, 1, Min(Len(rows), n))

\* SELECT h.* FROM history h WHERE h.list_id = ? ORDER BY h.timestamp DESC LIMIT 100
SelectHistory(d, list_id, ties) ==
    Limit(OrderByTimestampDesc({h \in d.history : h.list_id = list_id}, ties), HistoryLimit)

StartGetHistory(t) ==
    \E list_id \in 1..MaxLists :
        Receive(t, [NoReq EXCEPT !.op = "get_history", !.list_id = list_id], "gh_select")

\* cursor.execute(...); rows = cursor.fetchall(); return the rows.
GetHistorySelect(t) ==
    /\ pc[t] = "gh_select"
    /\ \E ties \in {"asc", "desc"} :
          loc' = [loc EXCEPT ![t].rows = SelectHistory(View(t), req[t].list_id, ties)]
    /\ Respond(t, "ok")
    /\ UNCHANGED <<storeVars, req, appended, published, trace, sseVars>>

\* The list the n-th create_item request of the sequence below is addressed to.
ListOfCreate(n) == IF n = 2 THEN 2 ELSE 1

\* The database after n create_item requests, the first `old` of them served
\* one second before the others (timestamps have a resolution of one second):
\* request i has inserted item i and history row i.
DbAfterCreates(n, old) ==
    [InitDb EXCEPT
        !.items = {[id |-> i, list_id |-> ListOfCreate(i), text |-> "a",
                    completed |-> FALSE, completed_at |-> {}] : i \in 1..n},
        !.history = {[id |-> i, list_id |-> ListOfCreate(i), item_id |-> {i},
                      action |-> CreateItemAction(FALSE), item_text |-> "a",
                      timestamp |-> IF i <= old THEN 0 ELSE 1] : i \in 1..n},
        !.seq_items = n,
        !.seq_history = n]

InitHistory ==
    \E n \in (0..SmallRows) \cup (HistoryLimit..MaxRows) :
        \E old \in {0, 1, n - 1} \cap (0..n) :
            InitWith(DbAfterCreates(n, old))

NextHistory ==
    \/ \E t \in Threads : AllIdle /\ FirstIdle(t) /\ StartGetHistory(t)
    \/ \E t \in Threads : GetHistorySelect(t) \/ Finish(t)

SpecHistory == InitHistory /\ [][NextHistory]_vars

(***************************************************************************)
(* The specification of the sort preferences: update_settings and          *)
(* update_list, one request at a time.                                     *)
(***************************************************************************)
SettingsStep(t) ==
    \/ UpdateSettingsReplace(t) \/ UpdateSettingsCommit(t)
    \/ UpdateListValidate(t) \/ UpdateListUpdate(t) \/ UpdateListCommit(t)
    \/ BroadcastLock(t) \/ BroadcastDeliver(t) \/ Finish(t)

NextSettings ==
    \/ \E t \in Threads :
          /\ AllIdle /\ FirstIdle(t) /\ pubCount < MaxPublish
          /\ StartUpdateSettings(t) \/ StartUpdateList(t)
    \/ \E t \in Threads : SettingsStep(t)

SpecSettings == Init /\ [][NextSettings]_vars

(***************************************************************************)
(* sse_events and its event_generator: one connection per queue.           *)
(*   none -> appending -> registered -> running -> finally -> removing     *)
(*        -> closed                                                        *)
(* A connection may also end while "registered" (-> dropped): the response *)
(* object has been returned but its body iterator was never started.       *)
(***************************************************************************)
\* Connections are interchangeable: the next one opened is the lowest unused.
NextConn(c) == conn[c] = "none" /\ \A k \in Conns : conn[k] = "none" => c <= k

\* sse_events entering its block without acquiring clients_lock.
SseLockNoWait(c) ==
    /\ NextConn(c)
    /\ clients_lock' = <<"conn", c>>
    /\ chan' = [chan EXCEPT ![c] = <<>>]
    /\ conn' = [conn EXCEPT ![c] = "appending"]
    /\ UNCHANGED <<storeVars, threadVars, connected_clients, consumed, pubCount>>

\* queue: Queue = Queue(); with clients_lock: entered.
SseLock(c) ==
    /\ NextConn(c)
    /\ clients_lock = <<"free", 0>>
    /\ clients_lock' = <<"conn", c>>
    /\ chan' = [chan EXCEPT ![c] = <<>>]
    /\ conn' = [conn EXCEPT ![c] = "appending"]
    /\ UNCHANGED <<storeVars, threadVars, connected_clients, consumed, pubCount>>

\* connected_clients.append(queue); the lock is released and the
\* StreamingResponse over event_generator() is returned.
SseAppend(c) ==
    /\ conn[c] = "appending"
    /\ clients_lock = <<"conn", c>>
    /\ connected_clients' = Append(connected_clients, c)
    /\ clients_lock' = <<"free", 0>>
    /\ conn' = [conn EXCEPT ![c] = "registered"]
    /\ UNCHANGED <<storeVars, threadVars, chan, consumed, pubCount>>

\* The server starts iterating the body: the generator enters its try block.
GenStart(c) ==
    /\ conn[c] = "registered"
    /\ conn' = [conn EXCEPT ![c] = "running"]
    /\ UNCHANGED <<storeVars, threadVars, clients_lock, connected_clients, chan, consumed,
                   pubCount>>

\* The connection ends before the body iterator was started (the client is
\* gone, or sending the response head fails): the generator's body, and so its
\* finally block, never runs.
EndBeforeStart(c) ==
    /\ conn[c] = "registered"
    /\ conn' = [conn EXCEPT ![c] = "dropped"]
    /\ UNCHANGED <<storeVars, threadVars, clients_lock, connected_clients, chan, consumed,
                   pubCount>>

\* Queue.get_nowait: the oldest message (Empty, and the sleep, change nothing).
get_nowait(q) == Head(q)

\* What get_nowait leaves in the queue.
get_rest(q) == Tail(q)

\* data = queue.get_nowait(); yield f"data: {data}\n\n"
GenPoll(c) ==
    /\ conn[c] = "running"
    /\ chan[c] # <<>>
    /\ consumed' = [consumed EXCEPT ![c] = Append(@, get_nowait(chan[c]))]
    /\ chan' = [chan EXCEPT ![c] = get_rest(@)]
    /\ UNCHANGED <<storeVars, threadVars, clients_lock, connected_clients, conn, pubCount>>

\* The generator is cancelled or closed (CancelledError at the sleep,
\* GeneratorExit or an error at the yield): control reaches the finally block.
GenCancel(c) ==
    /\ conn[c] = "running"
    /\ conn' = [conn EXCEPT ![c] = "finally"]
    /\ UNCHANGED <<storeVars, threadVars, clients_lock, connected_clients, chan, consumed,
                   pubCount>>

\* finally: with clients_lock: entered.
FinallyLock(c) ==
    /\ conn[c] = "finally"
    /\ clients_lock = <<"free", 0>>
    /\ clients_lock' = <<"conn", c>>
    /\ conn' = [conn EXCEPT ![c] = "removing"]
    /\ UNCHANGED <<storeVars, threadVars, connected_clients, chan, consumed, pubCount>>

\* A removal that leaves the list as it is.
RemoveNothing(clients, c) == clients

\* The list without its first element equal to c.
RECURSIVE RemoveFirst(_, _)
RemoveFirst(clients, c) ==
    IF clients = <<>> THEN <<>>
    ELSE IF Head(clients) = c THEN Tail(clients)
    ELSE <<Head(clients)>> \o RemoveFirst(Tail(clients), c)

\* queue in connected_clients
InList(clients, c) == \E i \in 1..Len(clients) : clients[i] = c

\* What list.remove(x) raises when x is not in the list: a value that is no
\* list of connections (connections are numbered from 1).
ValueError == <<0>>

\* list.remove(x): the list without the first element equal to x.
Remove(clients, c) ==
    IF InList(clients, c) THEN RemoveFirst(clients, c) ELSE ValueError

\* The removal without the membership test.
UnsubscribeUnguarded(clients, c) == Remove(clients, c)

\* if queue in connected_clients: connected_clients.remove(queue)
Unsubscribe(clients, c) ==
    IF InList(clients, c) THEN Remove(clients, c) ELSE clients

\* The body of the finally block under the lock; the lock is released.
FinallyRemove(c) ==
    /\ conn[c] = "removing"
    /\ clients_lock = <<"conn", c>>
    /\ connected_clients' = Unsubscribe(connected_clients, c)
    /\ clients_lock' = <<"free", 0>>
    /\ conn' = [conn EXCEPT ![c] = "closed"]
    /\ UNCHANGED <<storeVars, threadVars, chan, consumed, pubCount>>

(***************************************************************************)
(* The specification of the broadcaster: worker threads that have reached  *)
(* the broadcast_update call of a handler, concurrently with SSE           *)
(* connections opening, polling and ending.                                *)
(***************************************************************************)
Events == {[type |-> "items_changed", list_id |-> {1}]}

\* Threads that have been handed a broadcast and have not taken the lock yet.
Pending == {u \in Threads : pc[u] = "bcast"}

\* A handler of a worker thread reaches its broadcast_update call.
CallBroadcast(t) ==
    /\ pc[t] = "idle"
    /\ FirstIdle(t)
    /\ pubCount + Cardinality(Pending) < MaxPublish
    /\ \E ev \in Events :
          /\ req' = [req EXCEPT ![t] = [NoReq EXCEPT !.op = "broadcast_update"]]
          /\ loc' = [loc EXCEPT ![t].event = ev]
    /\ Goto(t, "bcast")
    /\ UNCHANGED <<storeVars, status, appended, published, trace, sseVars>>

SseStep(c) ==
    \/ SseLock(c) \/ SseAppend(c)
    \/ GenStart(c) \/ EndBeforeStart(c) \/ GenPoll(c) \/ GenCancel(c)
    \/ FinallyLock(c) \/ FinallyRemove(c)

NextSSE ==
    \/ \E t \in Threads : CallBroadcast(t)
    \/ \E t \in Threads : BroadcastLock(t) \/ BroadcastDeliver(t) \/ Finish(t)
    \/ \E c \in Conns : SseStep(c)

SpecSSE == Init /\ [][NextSSE]_vars

\* Scheduling.  A worker thread, and the event loop, keep running: an enabled
\* step of a `with clients_lock` block is eventually taken.  Nothing inside
\* the three blocks blocks (append, remove and put_nowait return at once), and
\* leaving a `with` block releases the lock on every path.
FairSSE ==
    /\ WF_vars(\E t \in Threads : BroadcastDeliver(t))
    /\ WF_vars(\E c \in Conns : SseAppend(c) \/ FinallyRemove(c))
    /\ WF_vars(\E t \in Threads : BroadcastLock(t))
    /\ WF_vars(\E c \in Conns : FinallyLock(c))

\* The specification of the lock: the steps of NextSSE that take, hold or
\* release clients_lock, and those that lead a connection to its finally
\* block.  A generator that polls its queue does not touch the lock.
LockStep(c) ==
    \/ SseLock(c) \/ SseAppend(c)
    \/ GenStart(c) \/ GenCancel(c)
    \/ FinallyLock(c) \/ FinallyRemove(c)

NextLock ==
    \/ \E t \in Threads : CallBroadcast(t)
    \/ \E t \in Threads : BroadcastLock(t) \/ BroadcastDeliver(t) \/ Finish(t)
    \/ \E c \in Conns : LockStep(c)

SpecLock == Init /\ [][NextLock]_vars /\ FairSSE

(***************************************************************************)
(* Properties of the request handlers (checked under Spec).                *)
(***************************************************************************)
\* The closed set of action kinds of the history table.
ActionKinds ==
    {"list_created", "item_created", "item_edited", "item_completed",
     "item_uncompleted", "item_deleted", "undo_created", "undo_deleted",
     "undo_edited", "undo_completed", "undo_uncompleted"}

MutationOps ==
    {"create_list", "update_list", "delete_list", "reorder_lists",
     "create_item", "update_item", "delete_item"}

ItemOps == {"create_item", "update_item", "delete_item"}

\* Thread t has completed a mutation successfully: the handler returned
\* success, it executed its store statement, and (for an item update or
\* delete) the item it names was found.
Mutated(t) ==
    /\ pc[t] = "done"
    /\ status[t] = "ok"
    /\ req[t].op \in MutationOps
    /\ \E i \in 1..Len(trace[t]) : trace[t][i] = "store"
    /\ req[t].op \in {"update_item", "delete_item"} => loc[t].item # {}

\* C1: every mutation request that completes successfully has appended
\* exactly one history entry, whose action is one of the action kinds.
C1_OneEntryPerMutation ==
    \A t \in Threads :
        Mutated(t) => /\ Len(appended[t]) = 1
                      /\ appended[t][1].action \in ActionKinds

\* The event a mutation is to publish: items_changed with the id of the list
\* that owns the item, lists_changed with no list id.
ExpectedEvent(t) ==
    IF req[t].op \in ItemOps
    THEN [type |-> "items_changed",
          list_id |-> IF req[t].op = "create_item" THEN {req[t].list_id}
                      ELSE {Val(loc[t].item).list_id}]
    ELSE [type |-> "lists_changed", list_id |-> {}]

\* C2: every mutation request that completes successfully has published
\* exactly one event, of the right kind and list id.
C2_OneEventPerMutation ==
    \A t \in Threads : Mutated(t) => published[t] = <<ExpectedEvent(t)>>

\* The undo mapping as the specification enumerates it: <<ordinary, undo-tagged>>.
UndoTable ==
    [create |-> <<"item_created", "undo_deleted">>,
     edit |-> <<"item_edited", "undo_edited">>,
     complete |-> <<"item_completed", "undo_uncompleted">>,
     uncomplete |-> <<"item_uncompleted", "undo_completed">>,
     delete |-> <<"item_deleted", "undo_created">>]

Recorded(kind, undo) == IF undo THEN UndoTable[kind][2] ELSE UndoTable[kind][1]

\* The actions an item request is to record, in order, by the mapping.
ExpectedActions(t) ==
    LET r == req[t]
    IN CASE r.op = "create_item" -> <<Recorded("create", r.undo)>>
         [] r.op = "delete_item" ->
               IF loc[t].item = {} THEN <<>> ELSE <<Recorded("delete", r.undo)>>
         [] r.op = "update_item" ->
               (IF r.text # {} /\ Val(r.text) # Val(loc[t].item).text
                THEN <<Recorded("edit", r.undo)>> ELSE <<>>)
               \o (IF r.completed = {TRUE} THEN <<Recorded("complete", r.undo)>>
                   ELSE IF r.completed = {FALSE} THEN <<Recorded("uncomplete", r.undo)>>
                   ELSE <<>>)

\* C3: the actions recorded by an item request follow the undo mapping, and
\* every action stored in history belongs to the closed set of action kinds.
C3_UndoMapping ==
    /\ \A t \in Threads :
          (pc[t] = "done" /\ status[t] = "ok" /\ req[t].op \in ItemOps)
          => [i \in 1..Len(appended[t]) |-> appended[t][i].action] = ExpectedActions(t)
    /\ \A h \in db.history \cup work.history : h.action \in ActionKinds

\* C3 witness: an undo request that completed an item has recorded undo_uncompleted.
C3_Witness ==
    \E t \in Threads :
        /\ pc[t] = "done" /\ status[t] = "ok"
        /\ req[t].op = "update_item" /\ req[t].undo /\ req[t].completed = {TRUE}
        /\ \E h \in db.history : h.action = "undo_uncompleted"

\* C8: when delete_list(L) commits, the store is left with no item and no
\* history entry of L, and with the items and history of the other lists
\* as they were.
C8_DeleteListCascades ==
    [][\A t \in Threads :
          (pc[t] = "dl_commit" /\ pc'[t] = "bcast")
          => /\ db'.items = {i \in db.items : i.list_id # req[t].list_id}
             /\ db'.history = {h \in db.history : h.list_id # req[t].list_id}]_vars

\* C9: a history entry of the committed store stays as recorded across every
\* step, unless the step commits a delete_list of the entry's list.
C9_HistoryAppendOnly ==
    [][\A h \in db.history :
          \/ h \in db'.history
          \/ \E t \in Threads : /\ req[t].op = "delete_list"
                                /\ req[t].list_id = h.list_id
                                /\ pc[t] = "dl_commit" /\ pc'[t] = "bcast"]_vars

\* C9 witness: an item has been deleted, or its text edited, after a history
\* entry recorded its creation; the entry still carries the original text.
C9_Witness ==
    \E h \in db.history :
        /\ h.action = "item_created"
        /\ \A i \in db.items : i.id \in h.item_id => i.text # h.item_text
        /\ \E g \in db.history : g.item_id = h.item_id /\ g.id > h.id

\* C10: in every handler the store change comes before the history entry,
\* and the publish after both.
C10_StepOrder ==
    \A t \in Threads :
        \A i \in 1..Len(trace[t]) : \A j \in 1..Len(trace[t]) :
            i < j => /\ ~(trace[t][i] = "history" /\ trace[t][j] = "store")
                     /\ ~(trace[t][i] = "publish" /\ trace[t][j] \in {"store", "history"})

\* C14: an item has a completion time exactly while it is completed (a new
\* item has neither), and an update_item that carries no completed flag
\* leaves the flag and the completion time of every item as they were.
C14_CompletionTime ==
    /\ [](\A i \in db.items \cup work.items : i.completed <=> i.completed_at # {})
    /\ [][\A t \in Threads :
             (req[t].op = "update_item" /\ req[t].completed = {} /\ pc'[t] # pc[t])
             => \A i \in db.items : \A j \in db'.items :
                   i.id = j.id => /\ j.completed = i.completed
                                  /\ j.completed_at = i.completed_at]_vars

\* C14 witness: an item that was completed has been uncompleted again.
C14_Witness ==
    \E i \in db.items :
        /\ ~i.completed
        /\ i.completed_at = {}
        /\ \E h \in db.history : h.item_id = {i.id} /\ h.action = "item_completed"
        /\ \E h \in db.history : h.item_id = {i.id} /\ h.action = "item_uncompleted"

\* History entry a was recorded after history entry b.
Newer(a, b) ==
    \/ a.timestamp > b.timestamp
    \/ a.timestamp = b.timestamp /\ a.id > b.id

\* C15: get_history(L) returns entries of L only, no more than 100 of them,
\* newest first, and every entry of L it leaves out is older than all those
\* it returns; entries recorded with the same timestamp included.
C15_HistoryNewestFirst ==
    \A t \in Threads :
        (pc[t] = "done" /\ req[t].op = "get_history")
        => LET rows == loc[t].rows
               ofList == {h \in db.history : h.list_id = req[t].list_id}
               returned == {rows[i] : i \in 1..Len(rows)}
           IN /\ returned \subseteq ofList
              /\ Len(rows) <= 100
              /\ Len(rows) = Min(Cardinality(ofList), 100)
              /\ \A i \in 1..Len(rows) : \A j \in 1..Len(rows) :
                    i < j => Newer(rows[i], rows[j])
              /\ \A h \in ofList \ returned : \A g \in returned : Newer(g, h)

\* C20: every item and every history entry of the committed store belongs
\* to a list that is in the store.
C20_OwnedByExistingList ==
    /\ \A i \in db.items : \E l \in db.lists : l.id = i.list_id
    /\ \A h \in db.history : \E l \in db.lists : l.id = h.list_id

(***************************************************************************)
(* Properties of concurrent item requests (checked under SpecRace).        *)
(***************************************************************************)
\* C18: when update_item records a history entry, the item is in the
\* committed store, and the snapshot of an edit starts with the text the
\* store holds for the item; when update_item commits, the item it has
\* updated is in the store.
C18_UpdateRecordsAppliedChange ==
    [][\A t \in Threads :
          /\ (req[t].op = "update_item" /\ Len(appended'[t]) > Len(appended[t]))
             => LET row == appended'[t][Len(appended'[t])]
                IN \E i \in db.items :
                      /\ i.id = req[t].item_id
                      /\ row.action \in {"item_edited", "undo_edited"}
                         => row.item_text = EditSnapshot(i.text, Val(req[t].text))
          /\ (req[t].op = "update_item" /\ pc[t] = "ui_commit" /\ pc'[t] = "bcast")
             => \E i \in db'.items : i.id = req[t].item_id]_vars

(***************************************************************************)
(* Properties of failing requests (checked under SpecFail and Spec).       *)
(***************************************************************************)
\* The request of thread t ended with a 500 response at the given step.
FailedAt(t, step) ==
    /\ pc[t] = "done"
    /\ status[t] = "500"
    /\ trace[t] # <<>>
    /\ trace[t][Len(trace[t])] = step

\* Nothing that the request of thread t set out to change is in the committed
\* store: the row it creates is absent, the item it updates or deletes is as
\* the request found it.
StoreChangeNotPersisted(t) ==
    CASE req[t].op = "create_list" -> \A l \in db.lists : l.id # loc[t].rowid
      [] req[t].op = "create_item" -> \A i \in db.items : i.id # loc[t].rowid
      [] req[t].op \in {"update_item", "delete_item"} -> loc[t].item \subseteq db.items
      [] OTHER -> TRUE

\* C11: recording is fail-closed.  A request whose history insert failed has
\* persisted no store change and published no event; a request whose store
\* write failed has persisted no history entry and published no event.
C11_FailClosed ==
    \A t \in Threads :
        /\ FailedAt(t, "history_failed")
           => StoreChangeNotPersisted(t) /\ published[t] = <<>>
        /\ FailedAt(t, "store_failed")
           => /\ \A i \in 1..Len(appended[t]) : appended[t][i] \notin db.history
              /\ published[t] = <<>>

\* The request of thread t names an item id that is not in the store, and
\* not because the request itself has deleted the item.
TargetMissing(t) ==
    /\ req[t].op \in {"update_item", "delete_item"}
    /\ \A i \in db.items : i.id # req[t].item_id
    /\ appended[t] = <<>>

\* C12: no step of an update_item or delete_item request on an id that is not
\* in the store changes items or history, or leads to a publish; update_item
\* ends with the not-found response.
C12_MissingTargetNoEffect ==
    [][\A t \in Threads :
          (TargetMissing(t) /\ pc'[t] # pc[t])
          => /\ db'.items = db.items
             /\ db'.history = db.history
             /\ appended'[t] = <<>>
             /\ published'[t] = <<>>
             /\ pc'[t] \notin {"bcast", "bcast_put"}
             /\ (req[t].op = "update_item" /\ pc'[t] = "done") => status'[t] = "404"]_vars

\* C12 witness: a delete_item on an id that is not in the store has run all
\* its statements, beside an item and a history entry that are in the store.
C12_Witness ==
    \E t \in Threads :
        /\ TargetMissing(t)
        /\ req[t].op = "delete_item"
        /\ pc[t] = "done"
        /\ trace[t] = <<"store">>
        /\ db.items # {}
        /\ db.history # {}

(***************************************************************************)
(* Properties of the sort preferences (checked under SpecSettings).        *)
(***************************************************************************)
\* The sort options an item list accepts, and those the list of lists accepts.
ItemSortOptions == {"alphabetical", "alphabetical_desc", "created_desc", "created_asc"}

ListSortOptions == ItemSortOptions \cup {"custom"}

\* The request of thread t carries a sort value outside the accepted options.
InvalidSort(t) ==
    \/ req[t].op = "update_list" /\ req[t].item_sort # {}
                                /\ Val(req[t].item_sort) \notin ItemSortOptions
    \/ req[t].op = "update_settings" /\ req[t].list_sort # {}
                                    /\ Val(req[t].list_sort) \notin ListSortOptions

\* C13: the stored item_sort of every list and the stored list_sort are always
\* valid options, and no step of a request with an invalid sort value changes
\* the store, records history or publishes; the request ends as a bad request.
C13_InvalidSortRejected ==
    /\ [](/\ \A l \in db.lists \cup work.lists : l.item_sort \in ItemSortOptions
          /\ db.list_sort \in ListSortOptions
          /\ work.list_sort \in ListSortOptions)
    /\ [][\A t \in Threads :
             (InvalidSort(t) /\ pc'[t] # pc[t])
             => /\ db' = db
                /\ work' = work
                /\ appended'[t] = <<>>
                /\ published'[t] = <<>>
                /\ pc'[t] \notin {"bcast", "bcast_put"}
                /\ pc'[t] = "done" => status'[t] = "400"]_vars

\* C13 witness: an update_list that carried a new name together with an
\* invalid item_sort has been rejected, and the list still has its old name.
C13_Witness ==
    \E t \in Threads :
        /\ InvalidSort(t)
        /\ req[t].op = "update_list"
        /\ req[t].name # {}
        /\ pc[t] = "done"
        /\ status[t] = "400"
        /\ \E l \in db.lists : l.id = req[t].list_id /\ l.name \notin req[t].name

(***************************************************************************)
(* Properties of the broadcaster (checked under SpecSSE).                  *)
(***************************************************************************)
\* C4: each subscriber channel has a bounded capacity C, smaller than the
\* number of events published: no channel ever holds more than C events.
C4_BoundedChannel ==
    \E C \in 1..(MaxPublish - 1) : \A c \in Conns : Len(chan[c]) <= C

\* C5: the events a subscriber has read are in publish order, none twice.
C5_PublishOrder ==
    \A c \in Conns :
        \A i \in 1..Len(consumed[c]) : \A j \in 1..Len(consumed[c]) :
            i < j => consumed[c][i].pub < consumed[c][j].pub

\* C5 witness: a subscriber has read two events.
C5_Witness == \E c \in Conns : Len(consumed[c]) >= 2

\* C6: once a connection has ended, its channel is no longer registered.
C6_EndedIsDeregistered ==
    \A c \in Conns : conn[c] \in {"closed", "dropped"} => ~InList(connected_clients, c)

\* C7: a step places at most one event in a channel, only in a channel that
\* is registered when the publish acts, and never in the channel of a
\* connection that has deregistered.
C7_NoDeliveryAfterUnsubscribe ==
    [][\A c \in Conns :
          Len(chan'[c]) > Len(chan[c])
          => /\ Len(chan'[c]) = Len(chan[c]) + 1
             /\ InList(connected_clients, c)
             /\ conn[c] # "closed"
             /\ \A i \in 1..Len(chan[c]) : chan[c][i].pub # chan'[c][Len(chan'[c])].pub]_vars

\* C7 witness: a connection that received an event has deregistered, and a
\* later publish has run to completion.
C7_Witness ==
    \E c \in Conns :
        /\ conn[c] = "closed"
        /\ consumed[c] \o chan[c] # <<>>
        /\ \E t \in Threads :
              /\ pc[t] = "done"
              /\ \A i \in 1..Len(consumed[c] \o chan[c]) :
                    (consumed[c] \o chan[c])[i].pub < pubCount

\* C16: unsubscribing is idempotent and exact.  For every channel, on every
\* subscriber list the program reaches: removing a channel that is not in the
\* list (never registered, or removed before) raises nothing and leaves the
\* list as it is; removing a registered channel takes out that channel and
\* keeps the others in order; removing it a second time changes nothing.
C16_UnsubscribeIdempotent ==
    \A c \in Conns :
        LET once == Unsubscribe(connected_clients, c)
        IN /\ once # ValueError
           /\ Unsubscribe(once, c) = once
           /\ ~InList(connected_clients, c) => once = connected_clients
           /\ InList(connected_clients, c)
              => once = SelectSeq(connected_clients, LAMBDA x : x # c)

\* C16 witness: one connection has run its finally block and is out of the
\* list while another channel is registered.
C16_Witness ==
    \E c \in Conns : \E k \in Conns :
        /\ conn[c] = "closed"
        /\ ~InList(connected_clients, c)
        /\ InList(connected_clients, k)

\* The threads, and the connections, that are inside a block guarded by
\* clients_lock: the loop of broadcast_update, the append of sse_events, the
\* removal in the finally block.
InsidePublish == {t \in Threads : pc[t] = "bcast_put"}

InsideSubscribe == {c \in Conns : conn[c] = "appending"}

InsideUnsubscribe == {c \in Conns : conn[c] = "removing"}

\* C17: at most one thread is inside an access to the subscriber set; the
\* set changes only in a step of the one subscribe or unsubscribe that is
\* inside, never while a publish is iterating; a publish iterates alone; the
\* lock, once taken, is released, and a publish or an unsubscribe that waits
\* for it gets it.
C17_LockDiscipline ==
    /\ [](Cardinality(InsidePublish) + Cardinality(InsideSubscribe)
            + Cardinality(InsideUnsubscribe) <= 1)
    /\ [][connected_clients' # connected_clients
           => /\ InsidePublish = {}
              /\ \E c \in InsideSubscribe \cup InsideUnsubscribe :
                    clients_lock = <<"conn", c>> /\ conn'[c] # conn[c]]_vars
    /\ [][chan' # chan /\ consumed' = consumed /\ conn' = conn
           => /\ InsideSubscribe \cup InsideUnsubscribe = {}
              /\ \E t \in InsidePublish : clients_lock = <<"thread", t>>]_vars
    /\ (clients_lock # <<"free", 0>>) ~> (clients_lock = <<"free", 0>>)
    /\ \A t \in Threads : (pc[t] = "bcast") ~> (pc[t] = "bcast_put")
    /\ \A c \in Conns : (conn[c] = "finally") ~> (conn[c] = "removing")

\* C17 witness: a publish is inside its loop while a subscribe and an
\* unsubscribe are waiting for the lock.
C17_Witness ==
    /\ InsidePublish # {}
    /\ \E c \in Conns : conn[c] = "finally"
    /\ \E c \in Conns : conn[c] = "none"
    /\ connected_clients # <<>>

(***************************************************************************)
(* The specification of notification: the handlers that create lists and   *)
(* create, update and delete items, one request at a time, while one SSE   *)
(* client is connected and reads its queue.                                *)
(***************************************************************************)
\* The state once GET /api/events of a first client has registered its queue
\* and its generator is running.
InitNotify ==
    /\ db = InitDb
    /\ work = InitDb
    /\ writer = {}
    /\ now = 1
    /\ pc = [t \in Threads |-> "idle"]
    /\ req = [t \in Threads |-> NoReq]
    /\ loc = [t \in Threads |-> NoLoc]
    /\ status = [t \in Threads |-> ""]
    /\ appended = [t \in Threads |-> <<>>]
    /\ published = [t \in Threads |-> <<>>]
    /\ trace = [t \in Threads |-> <<>>]
    /\ clients_lock = <<"free", 0>>
    /\ connected_clients = <<1>>
    /\ chan = [c \in Conns |-> <<>>]
    /\ conn = [c \in Conns |-> IF c = 1 THEN "running" ELSE "none"]
    /\ consumed = [c \in Conns |-> <<>>]
    /\ pubCount = 0

NotifyStep(t) ==
    \/ CreateListSelect(t) \/ CreateListInsert(t) \/ CreateListCommit1(t)
    \/ CreateListHistory(t) \/ CreateListCommit2(t)
    \/ ItemStep(t)

NextNotify ==
    \/ \E t \in Threads :
          /\ AllIdle /\ FirstIdle(t) /\ pubCount < MaxPublish
          /\ \/ StartCreateList(t) \/ StartCreateItem(t)
             \/ StartUpdateItem(t) \/ StartDeleteItem(t)
    \/ \E t \in Threads : NotifyStep(t)
    \/ \E c \in Conns : GenPoll(c)

SpecNotify == InitNotify /\ [][NextNotify]_vars

\* The change that the request of thread t announces is in the committed store.
ChangeCommitted(t) ==
    CASE req[t].op = "create_list" ->
            \E l \in db.lists : l.id = loc[t].rowid /\ l.name = Val(req[t].name)
      [] req[t].op = "create_item" ->
            \E i \in db.items : /\ i.id = loc[t].rowid
                                /\ i.list_id = req[t].list_id
                                /\ i.text = Val(req[t].text)
      [] req[t].op = "update_item" ->
            \E i \in db.items : /\ i.id = req[t].item_id
                                /\ req[t].text # {} => i.text = Val(req[t].text)
                                /\ req[t].completed # {} => i.completed = Val(req[t].completed)
      [] req[t].op = "delete_item" -> \A i \in db.items : i.id # req[t].item_id
      [] OTHER -> TRUE

\* C19: in the step that places an event in a subscriber's channel, the
\* publishing request has no open transaction, the change it announces is in
\* the committed store and so is every history entry it recorded; the
\* committed store is what a read issued afterwards observes.
C19_EventAfterCommit ==
    [][\A c \in Conns :
          Len(chan'[c]) > Len(chan[c])
          => \E t \in Threads :
                /\ pc[t] = "bcast_put" /\ pc'[t] = "done"
                /\ writer = {}
                /\ db' = db
                /\ ChangeCommitted(t)
                /\ appended[t] # <<>>
                /\ \A i \in 1..Len(appended[t]) : appended[t][i] \in db.history]_vars

\* C19 witness: the subscriber has read the event of an update_item request
\* that completed an item.
C19_Witness ==
    \E c \in Conns : \E t \in Threads :
        /\ consumed[c] # <<>>
        /\ consumed[c][Len(consumed[c])].pub = pubCount
        /\ pc[t] = "done"
        /\ req[t].op = "update_item"
        /\ req[t].completed = {TRUE}
        /\ published[t] # <<>>

=============================================================================
